---------------------------- MODULE Spec2Model ----------------------------
(***************************************************************************)
(* State-machine model of NgrxStoreWrapperService                          *)
(* (src/src/lib/ngrx-store-wrapper.service.ts): the dynamic slice          *)
(* registry, the effect scheduler and the persistence synchronizer, on top *)
(* of an NgRx store (Store + ReducerManager) and the two Web Storage       *)
(* backends (localStorage, sessionStorage).                                *)
(*                                                                         *)
(* The service is single threaded.  Every public method is one action,     *)
(* except remove(), which is an async method: the part before its `await`  *)
(* (RemoveBegin) and the continuation after it (RemoveFinish) are two      *)
(* steps, and calls issued in between by the same task interleave.         *)
(* Producer results arrive asynchronously (Deliver) and interval timers    *)
(* fire as separate steps (Tick).                                          *)
(***************************************************************************)
EXTENDS Integers, Sequences, FiniteSets, TLC

-----------------------------------------------------------------------------
(* Bounds of the model *)

\* number of steps (calls, ticks, deliveries, restarts) explored in one run
MaxSteps == 7

\* producer invocations whose result has not been delivered yet
MaxInFlight == 2

\* remove() calls suspended at their await, per key
MaxPendingRemove == 1

-----------------------------------------------------------------------------
(* Keys and values *)

\* keys the host declares in provideStore (present in the first snapshot)
HostStaticKeys == {"cnt"}

\* keys callers use for runtime slices; "setk" is also the action key of "k"
DynKeys == {"k", "setk"}

Keys == HostStaticKeys \cup DynKeys

\* JavaScript undefined (a slice that is not in the store state) and null
Undefined == "<undefined>"
Null == "<null>"

\* the state the host's own reducer gives its slice
HostValue == "h0"

DataValues == {"v1", "v2"}

\* values a caller passes to set(), a producer emits
Values == {Null} \cup DataValues

\* the key under which a generated action is kept: `set${key}`
ActionKey(key) == "set" \o key

\* DYNAMIC_KEY_WARN_THRESHOLD, 100 in the program, scaled to the two runtime
\* keys of the model: the first generated slice is the one past the threshold
DYNAMIC_KEY_WARN_THRESHOLD == 0

\* the StorageType enum, and the absence of a binding
StorageTypes == {"Local", "Session"}
NoType == "none"

\* storage.getItem(key) === null
NoItem == "<no item>"

\* JSON.stringify(value), as storage.setItem stores it (setItem turns the
\* undefined that JSON.stringify(undefined) returns into the text "undefined")
Stringify(v) ==
  CASE v = Null      -> "null"
    [] v = Undefined -> "undefined"
    [] OTHER         -> "\"" \o v \o "\""

\* a stored text that is not JSON
CorruptText == "{oops"

\* JSON.parse(text): ok is FALSE when JSON.parse throws a SyntaxError
Parse(t) ==
  CASE t = "null"     -> [ok |-> TRUE,  value |-> Null]
    [] t = "\"v1\""   -> [ok |-> TRUE,  value |-> "v1"]
    [] t = "\"v2\""   -> [ok |-> TRUE,  value |-> "v2"]
    [] t = "\"h0\""   -> [ok |-> TRUE,  value |-> HostValue]
    [] OTHER          -> [ok |-> FALSE, value |-> Undefined]

-----------------------------------------------------------------------------
(* State *)

VARIABLES
  isInitialized,        \* NgrxStoreWrapperService.isInitialized
  hasStore,             \* this.store has been assigned
  staticReducerKeys,    \* Set<string>
  dynamicReducers,      \* keys of the dynamicReducers map
  dynamicActions,       \* keys of the dynamicActions map (action keys)
  selectors,            \* keys of the selectors map
  persistedKeys,        \* Map<string, StorageType>, NoType when absent
  pollingSubscriptions, \* key -> kind of the interval subscription held
  effectConfigs,        \* key -> registration record, or NoConfig
  storeState,           \* the NgRx store's state object: key -> slice
  reducers,             \* keys whose generated reducer is registered
  timers,               \* key -> live interval subscriptions, by kind
  inFlight,             \* producer calls whose result is still to come
  pendingRemove,        \* key -> remove() calls suspended at their await
  localStorage,         \* [item: key -> text, meta: persisted-key record]
  sessionStorage,
  eff,                  \* history: per key, what its last registration did
  created,              \* history: keys for which set() created a slice
  snapshot,             \* history: at the last restart, the value of every
                        \* live slice bound to localStorage
  last,                 \* history: the last call, its argument, how it
                        \* ended, and what it made the store emit to the
                        \* views of each key and write to the storages,
                        \* how often it warned, the receiver it ran a
                        \* producer with, and its addReducer calls per key
  steps

vars == <<isInitialized, hasStore, staticReducerKeys, dynamicReducers,
          dynamicActions, selectors, persistedKeys, pollingSubscriptions,
          effectConfigs, storeState, reducers, timers, inFlight,
          pendingRemove, localStorage, sessionStorage, eff, created,
          snapshot, last, steps>>

\* per key, nothing emitted and nothing written
NoCounts == [k \in Keys |-> 0]

\* the whole state as one record, so that a handler that calls another
\* handler is the composition of their state transformers; a handler starts
\* with nothing emitted to the views and nothing written to the storages
S ==
  [isInitialized |-> isInitialized, hasStore |-> hasStore,
   staticReducerKeys |-> staticReducerKeys,
   dynamicReducers |-> dynamicReducers, dynamicActions |-> dynamicActions,
   selectors |-> selectors, persistedKeys |-> persistedKeys,
   pollingSubscriptions |-> pollingSubscriptions,
   effectConfigs |-> effectConfigs, storeState |-> storeState,
   reducers |-> reducers, timers |-> timers, inFlight |-> inFlight,
   pendingRemove |-> pendingRemove, localStorage |-> localStorage,
   sessionStorage |-> sessionStorage, eff |-> eff, created |-> created,
   snapshot |-> snapshot, emitted |-> NoCounts, writes |-> NoCounts,
   warned |-> 0, receiver |-> Undefined, added |-> NoCounts]

CommitArg(s, op, key, out, arg) ==
  /\ steps < MaxSteps
  /\ isInitialized' = s.isInitialized
  /\ hasStore' = s.hasStore
  /\ staticReducerKeys' = s.staticReducerKeys
  /\ dynamicReducers' = s.dynamicReducers
  /\ dynamicActions' = s.dynamicActions
  /\ selectors' = s.selectors
  /\ persistedKeys' = s.persistedKeys
  /\ pollingSubscriptions' = s.pollingSubscriptions
  /\ effectConfigs' = s.effectConfigs
  /\ storeState' = s.storeState
  /\ reducers' = s.reducers
  /\ timers' = s.timers
  /\ inFlight' = s.inFlight
  /\ pendingRemove' = s.pendingRemove
  /\ localStorage' = s.localStorage
  /\ sessionStorage' = s.sessionStorage
  /\ eff' = s.eff
  /\ created' = s.created
  /\ snapshot' = s.snapshot
  /\ last' = [op |-> op, key |-> key, out |-> out, arg |-> arg,
              emitted |-> s.emitted, writes |-> s.writes,
              warned |-> s.warned, receiver |-> s.receiver,
              added |-> s.added]
  /\ steps' = steps + 1

Commit(s, op, key, out) == CommitArg(s, op, key, out, Undefined)

\* a producer call in flight: the key it will write, whether it was started by
\* executeEffect ("fn") or by callApiAndDispatch ("http"), and whether the
\* registration it read carried a transform
Calls == [key : Keys, kind : {"fn", "http"}, transform : BOOLEAN]

NoConfig == [kind |-> "none"]
NoTimers == [fn |-> 0, http |-> 0]
\* history of a key's registration: which call made it, its options, whether
\* its producer binds, whether it replaced a live timer, and how many producer
\* calls, timer ticks and recalls followed; how many of the key's producer
\* calls were in flight when remove(key) was last called; whether a producer
\* call of the key has failed since the registration; and the arguments of
\* the latest producer call
NoEff == [kind |-> "none", immediate |-> FALSE, polled |-> FALSE,
          binds |-> FALSE, replaced |-> FALSE,
          calls |-> 0, ticks |-> 0, recalls |-> 0, inFlightAtRemove |-> 0,
          failed |-> FALSE, lastArgs |-> Undefined]
\* a Web Storage: the items of the keys, the metadata record, and whether it
\* has reached its quota, so that setItem of a value throws
EmptyStorage == [item |-> [k \in Keys |-> NoItem], meta |-> {}, full |-> FALSE]

\* the store as the host creates it: its own slices only
HostState == [k \in Keys |-> IF k \in HostStaticKeys THEN HostValue ELSE Undefined]

\* the service as its constructor leaves it (field initialisers)
Constructed(local, session, snap) ==
  [isInitialized |-> FALSE, hasStore |-> FALSE,
   staticReducerKeys |-> {}, dynamicReducers |-> {}, dynamicActions |-> {},
   selectors |-> {}, persistedKeys |-> [k \in Keys |-> NoType],
   pollingSubscriptions |-> [k \in Keys |-> "none"],
   effectConfigs |-> [k \in Keys |-> NoConfig],
   storeState |-> HostState, reducers |-> {},
   timers |-> [k \in Keys |-> NoTimers],
   inFlight |-> [c \in Calls |-> 0],
   pendingRemove |-> [k \in Keys |-> 0],
   localStorage |-> local, sessionStorage |-> session,
   eff |-> [k \in Keys |-> NoEff], created |-> {}, snapshot |-> snap,
   emitted |-> NoCounts, writes |-> NoCounts,
   warned |-> 0, receiver |-> Undefined, added |-> NoCounts]

-----------------------------------------------------------------------------
(* The host: NgRx Store and ReducerManager, and Web Storage *)

\* a view that would pass every state of the store on, changed or not
NotifyAlways(s, key, old) == [s EXCEPT !.emitted[key] = @ + 1]

\* store.pipe(select(selector)), the view get(key) returns: select passes a
\* state of the store on only when the selected slice differs from the one it
\* passed last (distinctUntilChanged); old is the slice before the change
Notify(s, key, old) ==
  IF s.storeState[key] # old THEN [s EXCEPT !.emitted[key] = @ + 1] ELSE s

\* reducerManager.addReducer(key, reducer): the reducer is registered and the
\* store runs it once, so a slice that has no state gets the reducer's
\* initial state, null
AddReducer(s, key) ==
  Notify([s EXCEPT !.added[key] = @ + 1,
                   !.reducers = @ \cup {key},
                   !.storeState[key] = IF @ = Undefined THEN Null ELSE @],
         key, s.storeState[key])

\* reducerManager.removeReducer(key): the slice leaves the store state
RemoveReducer(s, key) ==
  Notify([s EXCEPT !.reducers = @ \ {key}, !.storeState[key] = Undefined],
         key, s.storeState[key])

\* the generated action creator: createAction(`[${key}] Set`,
\* (value) => ({ value }))
SetAction(key, value) == [type |-> key, value |-> value]

\* store.dispatch of a generated action: only the generated reducer of the
\* action's key reacts to it, and only while it is registered; it returns
\* the old state when state === value and the action's value otherwise
Dispatch(s, action) ==
  LET key == action.type
  IN  IF key \in s.reducers
        THEN Notify([s EXCEPT !.storeState[key] =
                                IF @ = action.value THEN @ ELSE action.value],
                    key, s.storeState[key])
        ELSE s

\* type === StorageType.Local ? localStorage : sessionStorage
GetItem(s, type, key) ==
  IF type = "Local" THEN s.localStorage.item[key] ELSE s.sessionStorage.item[key]

\* storage.setItem(key, text) inside the try of its caller: the call is
\* counted; on a storage that has reached its quota it throws and stores
\* nothing, and the caller's catch logs the error
SetItem(s, type, key, text) ==
  LET s1 == [s EXCEPT !.writes[key] = @ + 1]
  IN  IF type = "Local"
        THEN IF s.localStorage.full THEN s1
             ELSE [s1 EXCEPT !.localStorage.item[key] = text]
        ELSE IF s.sessionStorage.full THEN s1
             ELSE [s1 EXCEPT !.sessionStorage.item[key] = text]

RemoveItem(s, type, key) ==
  IF type = "Local"
    THEN [s EXCEPT !.localStorage.item[key] = NoItem]
    ELSE [s EXCEPT !.sessionStorage.item[key] = NoItem]

-----------------------------------------------------------------------------
(* Slice registry *)

\* set(key, value) as it would be without the check of staticReducerKeys
SetBodyUnchecked(s, key, value) ==
  LET s1 == IF ActionKey(key) \notin s.dynamicActions
              THEN [AddReducer(s, key) EXCEPT
                      !.dynamicActions = @ \cup {ActionKey(key)},
                      !.dynamicReducers = @ \cup {key},
                      !.selectors = @ \cup {key},
                      !.created = @ \cup {key}]
              ELSE s
      s2 == Dispatch(s1, SetAction(key, value))
  IN  IF s2.persistedKeys[key] # NoType
        THEN SetItem(s2, s2.persistedKeys[key], key, Stringify(value))
        ELSE s2

\* set(key, value) as it would be without its write to the storage
SetBodyUnmirrored(s, key, value) ==
  IF key \in s.staticReducerKeys
    THEN s
    ELSE
      LET s1 == IF ActionKey(key) \notin s.dynamicActions
                  THEN [AddReducer(s, key) EXCEPT
                          !.dynamicActions = @ \cup {ActionKey(key)},
                          !.dynamicReducers = @ \cup {key},
                          !.selectors = @ \cup {key},
                          !.created = @ \cup {key}]
                  ELSE s
      IN  Dispatch(s1, SetAction(key, value))

\* the console.warn of set() after it registered a reducer (development mode)
WarnOverThreshold(s) ==
  IF Cardinality(s.dynamicReducers) > DYNAMIC_KEY_WARN_THRESHOLD
    THEN [s EXCEPT !.warned = @ + 1]
    ELSE s

\* set(key, value) after the initialization and the key-type checks
SetBody(s, key, value) ==
  IF key \in s.staticReducerKeys
    THEN s
    ELSE
      LET s1 == IF ActionKey(key) \notin s.dynamicActions
                  THEN WarnOverThreshold(
                         [AddReducer(s, key) EXCEPT
                            !.dynamicActions = @ \cup {ActionKey(key)},
                            !.dynamicReducers = @ \cup {key},
                            !.selectors = @ \cup {key},
                            !.created = @ \cup {key}])
                  ELSE s
          s2 == Dispatch(s1, SetAction(key, value))
      IN  IF s2.persistedKeys[key] # NoType
            THEN SetItem(s2, s2.persistedKeys[key], key, Stringify(value))
            ELSE s2

\* whether set(key, value) throws (ensureInitialized)
SetThrows(s) == ~s.isInitialized

\* set(key, value) as another handler calls it inside a try or a subscriber:
\* an exception it throws ends it without a change
DoSet(s, key, value) == IF SetThrows(s) THEN s ELSE SetBody(s, key, value)

\* get(key): throws without a store; otherwise makes sure a selector exists
\* and returns the view store.pipe(select(selector))
GetThrows(s, key) == ~s.hasStore

\* what a view returned by get(key) emits first when it is subscribed: the
\* selector's projection of the store's current state, state[key]
FirstEmission(s, key) == IF s.hasStore THEN s.storeState[key] ELSE Undefined

DoGet(s, key) ==
  IF GetThrows(s, key) THEN s ELSE [s EXCEPT !.selectors = @ \cup {key}]

\* remove(key) as it would be without its check of dynamicReducers
RemoveAwaitsAnyKey(s, key) == s.isInitialized

\* remove(key) up to its await: the call is rejected before initialization,
\* ends at once when key has no generated reducer, and otherwise waits for
\* the store's current value
RemoveAwaits(s, key) == s.isInitialized /\ key \in s.dynamicReducers

DoRemoveBegin(s, key) ==
  IF RemoveAwaits(s, key)
    THEN [s EXCEPT !.pendingRemove[key] = @ + 1,
                   !.eff[key].inFlightAtRemove =
                      s.inFlight[[key |-> key, kind |-> "fn", transform |-> FALSE]]
                      + s.inFlight[[key |-> key, kind |-> "fn", transform |-> TRUE]]
                      + s.inFlight[[key |-> key, kind |-> "http", transform |-> FALSE]]
                      + s.inFlight[[key |-> key, kind |-> "http", transform |-> TRUE]]]
    ELSE s

\* remove(key) after its await
DoRemoveFinish(s, key) ==
  RemoveReducer([s EXCEPT !.pendingRemove[key] = @ - 1,
                          !.dynamicReducers = @ \ {key},
                          !.dynamicActions = @ \ {key},
                          !.selectors = @ \ {key}], key)

-----------------------------------------------------------------------------
(* Persistence synchronizer *)

\* savePersistedKeys(): both metadata records are rewritten from persistedKeys
SavePersistedKeys(s) ==
  [s EXCEPT !.localStorage.meta = {k \in Keys : s.persistedKeys[k] = "Local"},
            !.sessionStorage.meta = {k \in Keys : s.persistedKeys[k] = "Session"}]

\* loadPersistedKeys(): the local record first, then the session record
LoadPersistedKeys(s) ==
  [s EXCEPT !.persistedKeys =
     [k \in Keys |-> IF k \in s.sessionStorage.meta THEN "Session"
                     ELSE IF k \in s.localStorage.meta THEN "Local"
                     ELSE @[k]]]

\* one iteration of restorePersistedState() as it would be without JSON.parse
RestoreKeyUnparsed(s, key) ==
  LET text == GetItem(s, s.persistedKeys[key], key)
  IN  IF text # NoItem /\ text # ""
        THEN DoSet(s, key, text)
        ELSE s

\* one iteration of restorePersistedState()
RestoreKey(s, key) ==
  LET text == GetItem(s, s.persistedKeys[key], key)
  IN  IF text # NoItem /\ text # "" /\ Parse(text).ok
        THEN DoSet(s, key, Parse(text).value)
        ELSE s

RECURSIVE RestoreKeys(_, _)
RestoreKeys(s, todo) ==
  IF todo = {} THEN s
  ELSE LET key == CHOOSE k \in todo : TRUE
       IN  RestoreKeys(RestoreKey(s, key), todo \ {key})

\* restorePersistedState()
RestorePersistedState(s) ==
  RestoreKeys(s, {k \in Keys : s.persistedKeys[k] # NoType})

\* initializeStore(store, reducerManager) as it would be if it read the
\* store's keys after the restoration instead of before it
DoInitializeStoreLateSnapshot(s) ==
  LET s1 == [s EXCEPT !.isInitialized = TRUE, !.hasStore = TRUE]
      s2 == RestorePersistedState(LoadPersistedKeys(s1))
  IN  [s2 EXCEPT !.staticReducerKeys =
                    @ \cup {k \in Keys : s2.storeState[k] # Undefined}]

\* initializeStore(store, reducerManager) as it would be if the bindings it
\* loaded served the restoration only
DoInitializeStoreForgettingBindings(s) ==
  LET s1 == [s EXCEPT !.isInitialized = TRUE, !.hasStore = TRUE,
                      !.staticReducerKeys =
                         @ \cup {k \in Keys : s.storeState[k] # Undefined}]
  IN  [RestorePersistedState(LoadPersistedKeys(s1)) EXCEPT
         !.persistedKeys = [k \in Keys |-> NoType]]

\* initializeStore(store, reducerManager)
DoInitializeStore(s) ==
  LET s1 == [s EXCEPT !.isInitialized = TRUE, !.hasStore = TRUE,
                      !.staticReducerKeys =
                         @ \cup {k \in Keys : s.storeState[k] # Undefined}]
  IN  RestorePersistedState(LoadPersistedKeys(s1))

\* enablePersistence(key, type) throws when it reaches this.store.pipe
\* without a store
EnablePersistenceThrows(s, key, type) ==
  GetItem(s, type, key) = NoItem /\ ~s.hasStore

DoEnablePersistence(s, key, type) ==
  LET s1 == SavePersistedKeys([s EXCEPT !.persistedKeys[key] = type])
      text == GetItem(s1, type, key)
  IN  IF text # NoItem
        THEN IF Parse(text).ok THEN DoSet(s1, key, Parse(text).value) ELSE s1
        ELSE IF s1.hasStore /\ s1.storeState[key] # Undefined
               THEN SetItem(s1, type, key, Stringify(s1.storeState[key]))
               ELSE s1

\* disablePersistence(key) as it would be without savePersistedKeys()
DoDisablePersistenceUnsaved(s, key) ==
  IF s.persistedKeys[key] = NoType
    THEN s
    ELSE [RemoveItem(s, s.persistedKeys[key], key) EXCEPT
            !.persistedKeys[key] = NoType]

\* disablePersistence(key) as it would be if it left the stored item behind
DoDisablePersistenceKeepingItem(s, key) ==
  IF s.persistedKeys[key] = NoType
    THEN s
    ELSE SavePersistedKeys([s EXCEPT !.persistedKeys[key] = NoType])

\* disablePersistence(key)
DoDisablePersistence(s, key) ==
  IF s.persistedKeys[key] = NoType
    THEN s
    ELSE SavePersistedKeys(
           [RemoveItem(s, s.persistedKeys[key], key) EXCEPT
              !.persistedKeys[key] = NoType])


-----------------------------------------------------------------------------
(* Auto-bind resolver and effect scheduler *)

\* the callables of the model: a method decorated with @AutoBind() (its owner
\* is in autoBindMetadata and the injector provides its instance), a function
\* no resolution rule applies to, and the httpFn closure of addHttpEffect
ServiceFns == {"autoBoundFn", "plainFn"}

\* autoBind(fn, context) throws "Failed to auto-bind serviceFn"
AutoBindThrows(fn, context) == ~context /\ fn # "autoBoundFn"

\* the receiver the callable returned by autoBind(fn, context) runs with, as
\* it would be if the owner recorded for the callable were looked up before
\* the context
AutoBindOwnerFirst(fn, context) ==
  IF fn = "autoBoundFn" THEN "instance"
  ELSE IF context THEN "context"
  ELSE Undefined

\* the receiver the callable returned by autoBind(fn, context) runs with: the
\* context when one is given, else the injector's instance of the class that
\* autoBindMetadata records for the callable
AutoBind(fn, context) ==
  IF context THEN "context"
  ELSE IF fn = "autoBoundFn" THEN "instance"
  ELSE Undefined

TotalInFlight(s) ==
  LET RECURSIVE Sum(_)
      Sum(cs) == IF cs = {} THEN 0
                 ELSE LET c == CHOOSE x \in cs : TRUE
                      IN  s.inFlight[c] + Sum(cs \ {c})
  IN  Sum(Calls)

\* the producer is called and its observable subscribed
Invoke(s, key, kind, transform) ==
  [s EXCEPT !.inFlight[[key |-> key, kind |-> kind, transform |-> transform]] = @ + 1,
            !.eff[key].calls = @ + 1,
            !.eff[key].lastArgs = s.effectConfigs[key].args]

\* whether executeEffect(key) throws
ExecuteEffectThrows(s, key) ==
  /\ s.effectConfigs[key] # NoConfig
  /\ AutoBindThrows(s.effectConfigs[key].originalServiceFn,
                    s.effectConfigs[key].context)

\* executeEffect(key), when it does not throw
ExecuteEffect(s, key) ==
  IF s.effectConfigs[key] = NoConfig \/ ExecuteEffectThrows(s, key)
    THEN s
    ELSE [Invoke(s, key, "fn", s.effectConfigs[key].transform) EXCEPT
            !.receiver = AutoBind(s.effectConfigs[key].originalServiceFn,
                                  s.effectConfigs[key].context)]

\* the callApiAndDispatch closure of addHttpEffect
CallApiAndDispatch(s, key) ==
  IF s.effectConfigs[key] = NoConfig
    THEN s
    ELSE Invoke(s, key, "http", s.effectConfigs[key].transform)

\* removeEffect(key) as it would be if it only stopped the timer
DoRemoveEffectKeepingConfig(s, key) ==
  LET kind == s.pollingSubscriptions[key]
  IN  IF kind # "none"
        THEN [s EXCEPT !.timers[key][kind] = @ - 1,
                       !.pollingSubscriptions[key] = "none"]
        ELSE s

\* removeEffect(key) as it would be if it only dropped the configuration
DoRemoveEffectKeepingTimer(s, key) ==
  [s EXCEPT !.effectConfigs[key] = NoConfig]

\* removeEffect(key)
DoRemoveEffect(s, key) ==
  LET kind == s.pollingSubscriptions[key]
      s1 == IF kind # "none"
              THEN [s EXCEPT !.timers[key][kind] = @ - 1,
                             !.pollingSubscriptions[key] = "none"]
              ELSE s
  IN  [s1 EXCEPT !.effectConfigs[key] = NoConfig]

\* interval(intervalMs)...subscribe(...) stored in pollingSubscriptions[key]
StartTimer(s, key, kind) ==
  [s EXCEPT !.timers[key][kind] = @ + 1, !.pollingSubscriptions[key] = kind]

\* addEffect(options) throws when the immediate execution cannot bind
AddEffectThrows(o) == o.immediate /\ AutoBindThrows(o.serviceFn, o.context)

\* addEffect(options) as it would be without its call of removeEffect(key)
DoAddEffectKeepingTimer(s, o) ==
  LET key == o.key
      s2 == [s EXCEPT
               !.effectConfigs[key] =
                  [kind |-> "fn", intervalMs |-> o.intervalMs,
                   immediate |-> o.immediate, transform |-> o.transform,
                   originalServiceFn |-> o.serviceFn, context |-> o.context,
                   args |-> o.args],
               !.eff[key] = [kind |-> "fn", immediate |-> o.immediate,
                             polled |-> o.intervalMs,
                             binds |-> ~AutoBindThrows(o.serviceFn, o.context),
                             replaced |-> s.pollingSubscriptions[key] # "none",
                             calls |-> 0, ticks |-> 0, recalls |-> 0,
                             inFlightAtRemove |-> 0, failed |-> FALSE,
                             lastArgs |-> Undefined]]
      s3 == IF o.immediate THEN ExecuteEffect(s2, key) ELSE s2
  IN  IF AddEffectThrows(o) THEN s2
      ELSE IF o.intervalMs
        THEN StartTimer(ExecuteEffect(s3, key), key, "fn")
        ELSE s3

\* addEffect(options)
DoAddEffect(s, o) ==
  LET key == o.key
      s1 == DoRemoveEffect(s, key)
      s2 == [s1 EXCEPT
               !.effectConfigs[key] =
                  [kind |-> "fn", intervalMs |-> o.intervalMs,
                   immediate |-> o.immediate, transform |-> o.transform,
                   originalServiceFn |-> o.serviceFn, context |-> o.context,
                   args |-> o.args],
               !.eff[key] = [kind |-> "fn", immediate |-> o.immediate,
                             polled |-> o.intervalMs,
                             binds |-> ~AutoBindThrows(o.serviceFn, o.context),
                             replaced |-> s.pollingSubscriptions[key] # "none",
                             calls |-> 0, ticks |-> 0, recalls |-> 0,
                             inFlightAtRemove |-> 0, failed |-> FALSE,
                             lastArgs |-> Undefined]]
      s3 == IF o.immediate THEN ExecuteEffect(s2, key) ELSE s2
  IN  IF AddEffectThrows(o) THEN s2
      ELSE IF o.intervalMs
        \* startWith makes the new subscription emit at once
        THEN StartTimer(ExecuteEffect(s3, key), key, "fn")
        ELSE s3

DoAddHttpEffect(s, o) ==
  LET key == o.key
      s1 == DoRemoveEffect(s, key)
      s2 == [s1 EXCEPT
               !.effectConfigs[key] =
                  [kind |-> "http", intervalMs |-> o.intervalMs,
                   immediate |-> o.immediate, transform |-> o.transform,
                   originalServiceFn |-> "httpFn", context |-> FALSE,
                   args |-> Undefined],
               !.eff[key] = [kind |-> "http", immediate |-> o.immediate,
                             polled |-> o.intervalMs, binds |-> TRUE,
                             replaced |-> s.pollingSubscriptions[key] # "none",
                             calls |-> 0, ticks |-> 0, recalls |-> 0,
                             inFlightAtRemove |-> 0, failed |-> FALSE,
                             lastArgs |-> Undefined]]
      s3 == IF o.immediate THEN CallApiAndDispatch(s2, key) ELSE s2
  IN  IF o.intervalMs
        THEN StartTimer(DoRemoveEffect(s3, key), key, "http")
        ELSE s3

\* recallEffect(key, updatedArgs) as it would be if a missing registration
\* were an error
RecallEffectThrowsOnMissing(s, key) ==
  ~s.isInitialized \/ s.effectConfigs[key] = NoConfig
                   \/ ExecuteEffectThrows(s, key)

\* recallEffect(key, updatedArgs)
RecallEffectThrows(s, key) == ~s.isInitialized \/ ExecuteEffectThrows(s, key)

\* recallEffect(key, updatedArgs) as it would be if it ignored updatedArgs
DoRecallEffectKeepingArgs(s, key, updatedArgs) ==
  IF ~s.isInitialized \/ s.effectConfigs[key] = NoConfig
    THEN s
    ELSE IF ExecuteEffectThrows(s, key) THEN s
         ELSE [ExecuteEffect(s, key) EXCEPT !.eff[key].recalls = @ + 1]

DoRecallEffect(s, key, updatedArgs) ==
  IF ~s.isInitialized \/ s.effectConfigs[key] = NoConfig
    THEN s
    ELSE LET s1 == IF updatedArgs # Undefined
                     THEN [s EXCEPT !.effectConfigs[key].args = updatedArgs]
                     ELSE s
         IN  IF ExecuteEffectThrows(s1, key) THEN s1
             ELSE [ExecuteEffect(s1, key) EXCEPT !.eff[key].recalls = @ + 1]

\* one emission of an interval subscription of key
DoTick(s, key, kind) ==
  LET s1 == [s EXCEPT !.eff[key].ticks = @ + 1]
  IN  IF kind = "fn" THEN ExecuteEffect(s1, key) ELSE CallApiAndDispatch(s1, key)

\* the transform option, a function of the model's values
Transform(v) ==
  CASE v = "v1" -> "v2"
    [] v = "v2" -> "v1"
    [] OTHER    -> v

\* what a producer's observable does: it emits a value, or fails
Outcomes == Values \cup {"error"}

\* the value the observer of a producer's result passes to set(), Undefined
\* when it returns without calling set()
Delivered(c, outcome) ==
  LET result == IF outcome = "error" THEN Null ELSE outcome
  IN  IF c.kind = "fn" /\ result = Null THEN Undefined
      ELSE IF c.transform THEN Transform(result) ELSE result

\* the observers as they would be if a failed call ended the key's polling
DoDeliverCancelling(s, c, outcome) ==
  LET s1 == [s EXCEPT !.inFlight[c] = @ - 1,
                      !.eff[c.key].failed = @ \/ outcome = "error"]
      result == IF outcome = "error" THEN Null ELSE outcome
      final == IF c.transform THEN Transform(result) ELSE result
  IN  IF outcome = "error"
        THEN DoRemoveEffect(s1, c.key)
        ELSE IF c.kind = "fn" /\ result = Null
          THEN s1
          ELSE DoSet(s1, c.key, final)

\* the observers as they would be if executeEffect passed every result on
DoDeliverWritingNull(s, c, outcome) ==
  LET s1 == [s EXCEPT !.inFlight[c] = @ - 1,
                      !.eff[c.key].failed = @ \/ outcome = "error"]
      result == IF outcome = "error" THEN Null ELSE outcome
      final == IF c.transform THEN Transform(result) ELSE result
  IN  DoSet(s1, c.key, final)

\* the observer of executeEffect (take(1), catchError -> of(null)) and the
\* observer of callApiAndDispatch (httpFn's own catchError -> of(null))
DoDeliver(s, c, outcome) ==
  LET s1 == [s EXCEPT !.inFlight[c] = @ - 1,
                      !.eff[c.key].failed = @ \/ outcome = "error"]
      result == IF outcome = "error" THEN Null ELSE outcome
      final == IF c.transform THEN Transform(result) ELSE result
  IN  IF c.kind = "fn" /\ result = Null
        THEN s1
        ELSE DoSet(s1, c.key, final)

-----------------------------------------------------------------------------
(* Actions.  Each takes the inputs its caller may choose from, so that a     *)
(* specification states which part of the public surface its runs exercise. *)

\* the producers a caller registers: a function and the context given with it
Producers ==
  {[serviceFn |-> "autoBoundFn", context |-> FALSE],
   [serviceFn |-> "plainFn", context |-> TRUE],
   [serviceFn |-> "plainFn", context |-> FALSE]}

\* the options of addEffect, for the given keys, producers and transform flags
EffectOptions(ks, ps, xs) ==
  {[key |-> k, serviceFn |-> p.serviceFn, context |-> p.context, args |-> "a0",
    intervalMs |-> i, immediate |-> m, transform |-> x] :
     k \in ks, p \in ps, i \in BOOLEAN, m \in BOOLEAN, x \in xs}

\* the options of addHttpEffect
HttpEffectOptions(ks, xs) ==
  [key : ks, intervalMs : BOOLEAN, immediate : BOOLEAN, transform : xs]

\* the updatedArgs of recallEffect: not given, or new arguments
RecallArgs == {Undefined, "a1"}

Bounded(s) ==
  /\ TotalInFlight(s) <= MaxInFlight
  /\ \A k \in Keys : s.pendingRemove[k] <= MaxPendingRemove

NoPendingRemove == \A k \in Keys : pendingRemove[k] = 0

InitializeStore ==
  /\ ~isInitialized
  /\ NoPendingRemove
  /\ LET r == DoInitializeStore(S)
     IN  Commit(r, "initializeStore", "", "ok")

Set(ks) ==
  \E key \in ks, value \in Values :
    LET r == DoSet(S, key, value)
    IN  CommitArg(r, "set", key, IF SetThrows(S) THEN "throws" ELSE "ok",
                  value)

Get(ks) ==
  \E key \in ks :
    LET r == DoGet(S, key)
    IN  CommitArg(r, "get", key,
                  IF GetThrows(S, key) THEN "throws" ELSE "view",
                  FirstEmission(r, key))

RemoveBegin(ks) ==
  \E key \in ks :
    LET r == DoRemoveBegin(S, key)
    IN  /\ Bounded(r)
        /\ Commit(r, "remove", key,
                  IF ~isInitialized THEN "throws"
                  ELSE IF RemoveAwaits(S, key) THEN "awaits" ELSE "ok")

RemoveFinish ==
  \E key \in Keys :
    /\ pendingRemove[key] > 0
    /\ LET r == DoRemoveFinish(S, key)
       IN  Commit(r, "removed", key, "ok")

EnablePersistence(ks) ==
  \E key \in ks, type \in StorageTypes :
    LET r == DoEnablePersistence(S, key, type)
    IN  Commit(r, "enablePersistence", key,
               IF EnablePersistenceThrows(S, key, type) THEN "throws" ELSE "ok")

DisablePersistence(ks) ==
  \E key \in ks :
    LET r == DoDisablePersistence(S, key)
    IN  Commit(r, "disablePersistence", key,
               IF persistedKeys[key] = NoType THEN "unbound" ELSE "ok")

AddEffect(os) ==
  \E o \in os :
    LET r == DoAddEffect(S, o)
    IN  /\ Bounded(r)
        /\ CommitArg(r, "addEffect", o.key,
                     IF AddEffectThrows(o) THEN "throws" ELSE "ok", o)

AddHttpEffect(os) ==
  \E o \in os :
    LET r == DoAddHttpEffect(S, o)
    IN  /\ Bounded(r)
        /\ CommitArg(r, "addHttpEffect", o.key, "ok", o)

RecallEffect(ks, as) ==
  \E key \in ks, updatedArgs \in as :
    LET r == DoRecallEffect(S, key, updatedArgs)
    IN  /\ Bounded(r)
        /\ CommitArg(r, "recallEffect", key,
                     IF RecallEffectThrows(S, key) THEN "throws" ELSE "ok",
                     updatedArgs)

RemoveEffect(ks) ==
  \E key \in ks :
    LET r == DoRemoveEffect(S, key)
    IN  Commit(r, "removeEffect", key, "ok")

Tick ==
  \E key \in Keys, kind \in {"fn", "http"} :
    /\ timers[key][kind] > 0
    /\ NoPendingRemove
    /\ LET r == DoTick(S, key, kind)
       IN  /\ Bounded(r)
           /\ Commit(r, "tick", key, "ok")

Deliver(outs) ==
  \E c \in Calls, outcome \in outs :
    /\ inFlight[c] > 0
    /\ LET r == DoDeliver(S, c, outcome)
       IN  CommitArg(r, "deliver", c.key, "ok",
                     [kind |-> c.kind, transform |-> c.transform,
                      outcome |-> outcome, value |-> Delivered(c, outcome)])

\* a storage reaches its quota: from now on setItem of a value throws
\* QuotaExceededError, which every caller of it catches
FillStorage ==
  \E type \in StorageTypes :
    /\ ~(IF type = "Local" THEN localStorage.full ELSE sessionStorage.full)
    /\ LET r == IF type = "Local"
                  THEN [S EXCEPT !.localStorage.full = TRUE]
                  ELSE [S EXCEPT !.sessionStorage.full = TRUE]
       IN  Commit(r, "fillStorage", "", "ok")

\* something other than the service (another script of the page, the user)
\* overwrites a stored item with a text that JSON.parse rejects
CorruptItem(ks) ==
  \E key \in ks, type \in StorageTypes :
    /\ GetItem(S, type, key) \notin {NoItem, CorruptText}
    /\ LET r == IF type = "Local"
                  THEN [S EXCEPT !.localStorage.item[key] = CorruptText]
                  ELSE [S EXCEPT !.sessionStorage.item[key] = CorruptText]
       IN  Commit(r, "corruptItem", key, "ok")

\* the process ends and a new one starts: memory and the store are rebuilt,
\* localStorage is kept, sessionStorage is kept (reload) or lost (new session)
Restart ==
  \E keepSession \in BOOLEAN :
    /\ NoPendingRemove
    /\ LET r == Constructed(
                  localStorage,
                  IF keepSession THEN sessionStorage ELSE EmptyStorage,
                  [k \in Keys |->
                     IF k \in dynamicReducers /\ persistedKeys[k] = "Local"
                       THEN storeState[k] ELSE Undefined])
       IN  Commit(r, "restart", "", "ok")

Init ==
  /\ isInitialized = FALSE
  /\ hasStore = FALSE
  /\ staticReducerKeys = {}
  /\ dynamicReducers = {}
  /\ dynamicActions = {}
  /\ selectors = {}
  /\ persistedKeys = [k \in Keys |-> NoType]
  /\ pollingSubscriptions = [k \in Keys |-> "none"]
  /\ effectConfigs = [k \in Keys |-> NoConfig]
  /\ storeState = HostState
  /\ reducers = {}
  /\ timers = [k \in Keys |-> NoTimers]
  /\ inFlight = [c \in Calls |-> 0]
  /\ pendingRemove = [k \in Keys |-> 0]
  /\ localStorage = EmptyStorage
  /\ sessionStorage = EmptyStorage
  /\ eff = [k \in Keys |-> NoEff]
  /\ created = {}
  /\ snapshot = [k \in Keys |-> Undefined]
  /\ last = [op |-> "new", key |-> "", out |-> "ok", arg |-> Undefined,
             emitted |-> NoCounts, writes |-> NoCounts,
   warned |-> 0, receiver |-> Undefined, added |-> NoCounts]
  /\ steps = 0

-----------------------------------------------------------------------------
(* Specifications *)

\* the slice registry and the persistence synchronizer, on every key
NextRegistry ==
  \/ InitializeStore
  \/ Set(Keys)
  \/ Get(Keys)
  \/ RemoveBegin(Keys)
  \/ RemoveFinish
  \/ EnablePersistence(Keys)
  \/ DisablePersistence(Keys)
  \/ Restart

SpecRegistry == Init /\ [][NextRegistry]_vars

\* the effect scheduler with the slice registry, on one runtime key
EffectKeys == {"k"}

NextEffects ==
  \/ InitializeStore
  \/ Set(EffectKeys)
  \/ RemoveBegin(EffectKeys)
  \/ RemoveFinish
  \/ AddEffect(EffectOptions(EffectKeys, Producers, {FALSE}))
  \/ AddHttpEffect(HttpEffectOptions(EffectKeys, {FALSE}))
  \/ RecallEffect(EffectKeys, {Undefined})
  \/ RemoveEffect(EffectKeys)
  \/ Tick
  \/ Deliver(Values)

SpecEffects == Init /\ [][NextEffects]_vars

\* a producer given with the context it belongs to
BoundProducers == {[serviceFn |-> "plainFn", context |-> TRUE]}

\* an effect on a key that is also persisted and removed
NextPersistedEffects ==
  \/ InitializeStore
  \/ Set(EffectKeys)
  \/ EnablePersistence(EffectKeys)
  \/ RemoveBegin(EffectKeys)
  \/ RemoveFinish
  \/ AddEffect(EffectOptions(EffectKeys, BoundProducers, {FALSE}))
  \/ Deliver(Values)

SpecPersistedEffects == Init /\ [][NextPersistedEffects]_vars

\* the effect scheduler alone with producers that fail, on one runtime key
NextScheduler ==
  \/ InitializeStore
  \/ AddEffect(EffectOptions(EffectKeys, Producers, {FALSE}))
  \/ AddHttpEffect(HttpEffectOptions(EffectKeys, {FALSE}))
  \/ RecallEffect(EffectKeys, RecallArgs)
  \/ RemoveEffect(EffectKeys)
  \/ Tick
  \/ Deliver(Outcomes)

SpecScheduler == Init /\ [][NextScheduler]_vars

\* effects of both kinds with results that fail, on one runtime key that is
\* also persisted
NextFailingEffects ==
  \/ InitializeStore
  \/ EnablePersistence(EffectKeys)
  \/ AddEffect(EffectOptions(EffectKeys, BoundProducers, BOOLEAN))
  \/ AddHttpEffect(HttpEffectOptions(EffectKeys, {FALSE}))
  \/ Deliver(Outcomes)

SpecFailingEffects == Init /\ [][NextFailingEffects]_vars

\* the persistence synchronizer with the calls that bind, unbind, write and
\* remove, on one runtime key and one key the host declared
PersistenceKeys == {"k", "cnt"}

NextPersistence ==
  \/ InitializeStore
  \/ Set(PersistenceKeys)
  \/ RemoveBegin(PersistenceKeys)
  \/ RemoveFinish
  \/ EnablePersistence(PersistenceKeys)
  \/ DisablePersistence(PersistenceKeys)
  \/ Restart

SpecPersistence == Init /\ [][NextPersistence]_vars

\* writes of a bound runtime key to storages that reach their quota
NextQuota ==
  \/ InitializeStore
  \/ Set(EffectKeys)
  \/ EnablePersistence(EffectKeys)
  \/ DisablePersistence(EffectKeys)
  \/ FillStorage

SpecQuota == Init /\ [][NextQuota]_vars

\* restoration at startup from storages whose items may have been damaged,
\* on the runtime keys
NextRestore ==
  \/ InitializeStore
  \/ Set(DynKeys)
  \/ EnablePersistence(DynKeys)
  \/ CorruptItem(DynKeys)
  \/ Restart

SpecRestore == Init /\ [][NextRestore]_vars

\* the slice registry alone, on the runtime keys
NextSlices ==
  \/ InitializeStore
  \/ Set(DynKeys)
  \/ Get(DynKeys)
  \/ RemoveBegin(DynKeys)
  \/ RemoveFinish

SpecSlices == Init /\ [][NextSlices]_vars

\* the whole public surface, every call on a key the host declared; remove()
\* of such a key throws before it awaits, so it has no continuation here
\* the producers autoBind resolves: every callable with a context given with
\* it, and the decorated method without one
ResolvedProducers ==
  {p \in [serviceFn : ServiceFns, context : BOOLEAN] :
     ~AutoBindThrows(p.serviceFn, p.context)}

\* a decorated method given without a context
OwnedProducers == {[serviceFn |-> "autoBoundFn", context |-> FALSE]}

\* the auto-bind resolver: a decorated method registered without a context on
\* one key, and every callable registered with or without a context on
\* another, executed at once, by their timers and on recall
NextAutoBind ==
  \/ InitializeStore
  \/ AddEffect(EffectOptions({"setk"}, OwnedProducers, {FALSE}))
  \/ AddEffect(EffectOptions(EffectKeys, ResolvedProducers, {FALSE}))
  \/ RecallEffect(EffectKeys, {Undefined})
  \/ Tick
  \/ Deliver({"v1"})

SpecAutoBind == Init /\ [][NextAutoBind]_vars

Next ==
  \/ InitializeStore
  \/ Set(HostStaticKeys)
  \/ Get(HostStaticKeys)
  \/ RemoveBegin(HostStaticKeys)
  \/ EnablePersistence(HostStaticKeys)
  \/ DisablePersistence(HostStaticKeys)
  \/ AddEffect(EffectOptions(HostStaticKeys, BoundProducers, {TRUE}))
  \/ AddHttpEffect(HttpEffectOptions(HostStaticKeys, {TRUE}))
  \/ RecallEffect(HostStaticKeys, {Undefined})
  \/ RemoveEffect(HostStaticKeys)
  \/ Tick
  \/ Deliver(Values)
  \/ Restart

Spec == Init /\ [][Next]_vars

-----------------------------------------------------------------------------
(* Properties *)

\* C1: a key the host declared keeps the host's value for ever, and the
\* registry never registers a reducer or an action for it, whatever reaches
\* set() for it: a direct call, an effect's result, or the restoration of
\* persisted state at start-up
C1_DeclaredKeysUntouched ==
  \A k \in HostStaticKeys :
    /\ storeState[k] = HostValue
    /\ k \notin reducers
    /\ k \notin dynamicReducers
    /\ ActionKey(k) \notin dynamicActions

\* the restoration at start-up has just called set() for a declared key, with
\* the text an earlier run stored for it
C1_RestoreReachedDeclaredKey ==
  /\ last.op = "initializeStore"
  /\ \E k \in HostStaticKeys :
       /\ k \in staticReducerKeys
       /\ persistedKeys[k] = "Local"
       /\ Parse(localStorage.item[k]).ok

\* C2: get(k) of a key that is not declared by the host, called after set
\* created the slice of k and remove(k) took it away, throws instead of
\* returning a view
C2_GetAfterRemoveThrows ==
  (/\ last.op = "get"
   /\ isInitialized
   /\ last.key \notin staticReducerKeys
   /\ last.key \in created
   /\ last.key \notin dynamicReducers)
  => last.out = "throws"

\* C3: get(k) of a key no set has ever created a slice for throws when the
\* host did not declare k, and returns a view when the host declared it
C3_GetBeforeSet ==
  (/\ last.op = "get"
   /\ isInitialized
   /\ last.key \notin created)
  => IF last.key \in staticReducerKeys
       THEN last.out = "view"
       ELSE last.out = "throws"

\* C4: when remove(k) of a key with a generated slice has run from its call
\* to its end, k has no effect configuration and no polling subscription, so
\* that no timer of k is left to tick
C4_RemoveTearsDownEffect ==
  [][(/\ last.op = "remove"
      /\ last.out = "awaits"
      /\ last'.op = "removed"
      /\ last'.key = last.key)
     => /\ effectConfigs'[last.key] = NoConfig
        /\ pollingSubscriptions'[last.key] = "none"
        /\ timers'[last.key] = NoTimers]_vars

\* C5: when remove(k) of a key with a generated slice has run from its call
\* to its end, k is not bound to a storage any more, neither storage holds an
\* entry for k, and neither metadata record lists k
C5_RemoveTearsDownPersistence ==
  [][(/\ last.op = "remove"
      /\ last.out = "awaits"
      /\ last'.op = "removed"
      /\ last'.key = last.key)
     => /\ persistedKeys'[last.key] = NoType
        /\ localStorage'.item[last.key] = NoItem
        /\ sessionStorage'.item[last.key] = NoItem
        /\ last.key \notin localStorage'.meta \cup sessionStorage'.meta]_vars

\* C6: an effect registered by addEffect with an interval and immediate = true,
\* whose producer can be bound, has called its producer once for the
\* registration, once for every tick of its timer and once for every recall,
\* and no more; removeEffect stops the ticks and with them the calls
C6_OneCallPerTick ==
  \A k \in Keys :
    (/\ eff[k].kind = "fn"
     /\ eff[k].polled
     /\ eff[k].immediate
     /\ eff[k].binds)
    => eff[k].calls = 1 + eff[k].ticks + eff[k].recalls

\* C7: a key never has more than one running interval subscription, whatever
\* addEffect, addHttpEffect, recallEffect, removeEffect and remove did to it
C7_AtMostOneTimer ==
  \A k \in Keys : timers[k].fn + timers[k].http <= 1

\* a registration found a running timer for its key, and one timer runs now
C7_TimerReplaced ==
  \E k \in Keys :
    /\ eff[k].replaced
    /\ timers[k].fn + timers[k].http = 1

\* C8: enablePersistence(k, type) of a key that has no slice, neither the
\* host's nor a generated one, throws, and leaves the bound keys, the
\* metadata records and both storages as they were
C8_EnableWithoutSliceThrows ==
  [][\A k \in Keys :
       (/\ last'.op = "enablePersistence"
        /\ last'.key = k
        /\ isInitialized
        /\ k \notin staticReducerKeys
        /\ k \notin dynamicReducers)
       => /\ last'.out = "throws"
          /\ persistedKeys' = persistedKeys
          /\ localStorage' = localStorage
          /\ sessionStorage' = sessionStorage]_vars

\* C9: enablePersistence(k, type) of a key with a generated slice stores the
\* text of the slice's current value in the chosen storage, whatever that
\* storage held for k, and leaves the value in the store as it was
C9_EnableStoresCurrentValue ==
  [][\A k \in Keys :
       (/\ last'.op = "enablePersistence"
        /\ last'.key = k
        /\ isInitialized
        /\ k \in dynamicReducers)
       => /\ storeState'[k] = storeState[k]
          /\ persistedKeys'[k] \in StorageTypes
          /\ persistedKeys'[k] = "Local" =>
               localStorage'.item[k] = Stringify(storeState[k])
          /\ persistedKeys'[k] = "Session" =>
               sessionStorage'.item[k] = Stringify(storeState[k])]_vars

\* C10: when a new process starts with initializeStore, every key that had a
\* generated slice bound to localStorage when the old process ended has, in
\* the new store, the value it had then, without a call of set
C10_RestartRestoresLocalKeys ==
  [][(last.op = "restart" /\ last'.op = "initializeStore")
     => \A k \in Keys :
          snapshot[k] # Undefined => storeState'[k] = snapshot[k]]_vars

\* a new process has initialized and its store holds the value a key bound to
\* localStorage had when the old process ended
C10_ValueRestored ==
  /\ last.op = "initializeStore"
  /\ \E k \in DynKeys :
       /\ snapshot[k] \in Values
       /\ k \in dynamicReducers
       /\ storeState[k] = snapshot[k]

\* C11: after set(k, v) of a key that is bound to a storage and is not
\* declared by the host, that storage's entry for k is the text of v
C11_SetMirrored ==
  (/\ last.op = "set"
   /\ last.out = "ok"
   /\ last.key \notin staticReducerKeys
   /\ persistedKeys[last.key] # NoType)
  => GetItem(S, persistedKeys[last.key], last.key) = Stringify(last.arg)

\* a set changed the value of a slice bound to localStorage, and the entry
\* holds the new value's text
C11_ChangeMirrored ==
  /\ last.op = "set"
  /\ last.out = "ok"
  /\ last.key \in DynKeys
  /\ last.arg \in DataValues
  /\ last.emitted[last.key] > 0
  /\ persistedKeys[last.key] = "Local"
  /\ localStorage.item[last.key] = Stringify(last.arg)

\* C12: of two set(k, v) calls in a row with the same value on a key the
\* host did not declare, the second leaves the store's state as it is and
\* makes the views of k emit nothing; and a set that changes the value of a
\* live slice makes them emit exactly once
C12_RepeatedSetEmitsNothing ==
  [][\A k \in Keys :
       (/\ last'.op = "set" /\ last'.out = "ok" /\ last'.key = k
        /\ k \notin staticReducerKeys)
       => /\ (last.op = "set" /\ last.out = "ok" /\ last.key = k
              /\ last'.arg = last.arg)
             => (last'.emitted[k] = 0 /\ storeState' = storeState)
          /\ (k \in reducers /\ ActionKey(k) \in dynamicActions
              /\ last'.arg # storeState[k])
             => last'.emitted[k] = 1]_vars

\* a set of a live slice passed the value the slice already had, and the
\* views of the key emitted nothing
C12_SameValueSetAgain ==
  /\ last.op = "set"
  /\ last.out = "ok"
  /\ last.key \in DynKeys
  /\ last.key \in reducers
  /\ last.arg \in DataValues
  /\ storeState[last.key] = last.arg
  /\ last.emitted[last.key] = 0

\* C13: set(k, v) of a live slice that is bound to a storage and already
\* holds v writes nothing to the storage
C13_SameValueNotWritten ==
  [][\A k \in Keys :
       (/\ last'.op = "set" /\ last'.out = "ok" /\ last'.key = k
        /\ k \notin staticReducerKeys
        /\ k \in reducers
        /\ persistedKeys[k] # NoType
        /\ last'.arg = storeState[k])
       => last'.writes[k] = 0]_vars

\* C14: a view obtained from get(k) right after set(k, v), for a key the
\* host did not declare, emits v first, as it was passed and not wrapped
C14_GetEmitsSetValue ==
  [][(/\ last.op = "set" /\ last.out = "ok"
      /\ last.key \notin staticReducerKeys
      /\ last'.op = "get" /\ last'.key = last.key)
     => (last'.out = "view" /\ last'.arg = last.arg)]_vars

\* C15: staticReducerKeys is empty until initializeStore, holds exactly the
\* keys of the host's own slices from then on, and no call changes it: a key
\* set() created or the start-up restored is never a member
C15_DeclaredKeysFixed ==
  staticReducerKeys = IF isInitialized THEN HostStaticKeys ELSE {}

\* a start-up has restored a generated slice, and the slice's key is not
\* among the declared keys
C15_RestoredKeyNotDeclared ==
  /\ last.op = "initializeStore"
  /\ staticReducerKeys = HostStaticKeys
  /\ \E k \in DynKeys : k \in reducers /\ storeState[k] \in DataValues

\* C16: remove(k) of a key that has no generated slice (never set, removed
\* before, or declared by the host) changes nothing: the store, its reducers,
\* the registry's maps, the effects, the bindings and the storages stay as
\* they were, so a second remove(k) after a first adds nothing to it
C16_RemoveOfNoSliceChangesNothing ==
  [][\A k \in Keys :
       (/\ last'.op = "remove" /\ last'.key = k
        /\ k \notin dynamicReducers)
       => UNCHANGED <<isInitialized, hasStore, staticReducerKeys,
                      dynamicReducers, dynamicActions, selectors,
                      persistedKeys, pollingSubscriptions, effectConfigs,
                      storeState, reducers, timers, inFlight, pendingRemove,
                      localStorage, sessionStorage>>]_vars

\* remove(k) was called again after an earlier remove(k) had taken the slice
\* away
C16_RemovedTwice ==
  /\ last.op = "remove"
  /\ last.out = "ok"
  /\ last.key \in created
  /\ last.key \notin dynamicReducers
  /\ pendingRemove[last.key] = 0

\* C17: when a call of remove(k) returns, the removal is complete: k has no
\* generated reducer, in the registry or in the store, and nothing of the
\* call is left to run later
C17_RemoveCompletesInCall ==
  (last.op = "remove" /\ isInitialized)
  => /\ last.key \notin dynamicReducers
     /\ last.key \notin reducers
     /\ pendingRemove[last.key] = 0

\* C18: a producer's result that arrives for k right after remove(k) has
\* taken the slice away, from a call that was in flight when remove(k) was
\* called, is dropped: no slice is created, the store's state of k stays as
\* it is, and nothing is written to a storage
C18_LateResultIgnored ==
  [][\A k \in Keys :
       (/\ last.op = "removed" /\ last.key = k
        /\ eff[k].inFlightAtRemove > 0
        /\ last'.op = "deliver" /\ last'.key = k)
       => /\ dynamicReducers' = dynamicReducers
          /\ reducers' = reducers
          /\ storeState'[k] = storeState[k]
          /\ last'.writes[k] = 0
          /\ localStorage' = localStorage
          /\ sessionStorage' = sessionStorage]_vars

\* C19: addEffect on a key that already has a registration or a timer leaves
\* the key with the configuration given in this call and nothing of the old
\* one: no timer of the old registration runs, and the only timer is the one
\* this call started, when it asked for an interval and did not throw
C19_AddEffectSupersedes ==
  [][\A k \in Keys :
       (/\ last'.op = "addEffect" /\ last'.key = k
        /\ (effectConfigs[k] # NoConfig \/ pollingSubscriptions[k] # "none"))
       => /\ effectConfigs'[k] =
               [kind |-> "fn", intervalMs |-> last'.arg.intervalMs,
                immediate |-> last'.arg.immediate,
                transform |-> last'.arg.transform,
                originalServiceFn |-> last'.arg.serviceFn,
                context |-> last'.arg.context, args |-> last'.arg.args]
          /\ timers'[k].http = 0
          /\ timers'[k].fn =
               IF last'.arg.intervalMs /\ last'.out = "ok" THEN 1 ELSE 0]_vars

\* an addEffect found a running timer for its key and started its own
C19_TimerSuperseded ==
  /\ last.op = "addEffect"
  /\ last.out = "ok"
  /\ eff[last.key].replaced
  /\ timers[last.key] = [fn |-> 1, http |-> 0]

\* C20: an effect registered by addEffect with immediate = false, whose
\* producer can be bound, has called its producer only for ticks of its timer
\* and for recalls: the registration itself calls nothing
C20_NotImmediateCallsNothing ==
  \A k \in Keys :
    (/\ eff[k].kind = "fn"
     /\ ~eff[k].immediate
     /\ eff[k].binds)
    => eff[k].calls = eff[k].ticks + eff[k].recalls

\* C21: a failed producer call of an addEffect registration leaves the key's
\* polling timer and registration as they were, and every tick that follows a
\* failure, while a registration with a producer that can be bound is
\* installed, calls the producer once more.
C21_FailureKeepsPolling ==
  [][\A k \in EffectKeys :
       /\ (/\ last'.op = "deliver" /\ last'.key = k
           /\ last'.arg.kind = "fn" /\ last'.arg.outcome = "error")
            => /\ timers'[k] = timers[k]
               /\ pollingSubscriptions'[k] = pollingSubscriptions[k]
               /\ effectConfigs'[k] = effectConfigs[k]
       /\ (/\ last'.op = "tick" /\ last'.key = k
           /\ eff[k].failed /\ eff[k].binds
           /\ effectConfigs[k] # NoConfig /\ effectConfigs[k].kind = "fn")
            => /\ eff'[k].calls = eff[k].calls + 1
               /\ timers'[k] = timers[k]]_vars

\* a tick of a polling addEffect registration, after one of its calls failed,
\* called the producer again
C21_TickAfterFailure ==
  \E k \in EffectKeys :
    /\ last.op = "tick" /\ last.key = k
    /\ eff[k].kind = "fn" /\ eff[k].failed /\ ~eff[k].replaced
    /\ eff[k].ticks >= 1 /\ eff[k].calls >= 2
    /\ timers[k]["fn"] = 1

\* C22: addEffect returns normally whatever its producer does, with the
\* registration installed and, when an interval was given, its timer running.
C22_AddEffectNeverThrows ==
  last.op = "addEffect"
  => /\ last.out = "ok"
     /\ effectConfigs[last.key] # NoConfig
     /\ effectConfigs[last.key].originalServiceFn = last.arg.serviceFn
     /\ timers[last.key]["fn"] = IF last.arg.intervalMs THEN 1 ELSE 0

\* C23: a producer call that fails, of an addEffect or of an addHttpEffect
\* registration, leaves the store value of the key and its copy in either
\* storage as they were.
C23_FailureChangesNothing ==
  [][\A k \in EffectKeys :
       (last'.op = "deliver" /\ last'.key = k /\ last'.arg.outcome = "error")
       => /\ storeState'[k] = storeState[k]
          /\ localStorage'.item[k] = localStorage.item[k]
          /\ sessionStorage'.item[k] = sessionStorage.item[k]]_vars

C25_RemoveEffectCancels ==
  [][\A k \in EffectKeys :
       (last'.op = "removeEffect" /\ last'.key = k)
       => /\ last'.out = "ok"
          /\ timers'[k] = NoTimers
          /\ pollingSubscriptions'[k] = "none"
          /\ effectConfigs'[k] = NoConfig
          /\ (effectConfigs[k] = NoConfig /\ pollingSubscriptions[k] = "none")
              => UNCHANGED <<isInitialized, hasStore, staticReducerKeys,
                             dynamicReducers, dynamicActions, selectors,
                             persistedKeys, pollingSubscriptions, effectConfigs,
                             storeState, reducers, timers, inFlight,
                             pendingRemove, localStorage, sessionStorage, eff,
                             created, snapshot>>]_vars

\* removeEffect was called on a polling registration whose timer had ticked
C25_TimerRemoved ==
  \E k \in EffectKeys :
    /\ last.op = "removeEffect" /\ last.key = k
    /\ eff[k].polled /\ eff[k].ticks >= 1
    /\ steps = 3
    /\ timers[k] = NoTimers

\* C26: once the store is initialized, recallEffect(k, args) on a key with no
\* registration returns normally and changes nothing: no producer call, no
\* registration, no timer, no store or storage change.
C26_RecallWithoutRegistration ==
  [][\A k \in EffectKeys :
       (/\ last'.op = "recallEffect" /\ last'.key = k
        /\ isInitialized /\ effectConfigs[k] = NoConfig)
       => /\ last'.out = "ok"
          /\ UNCHANGED <<isInitialized, hasStore, staticReducerKeys,
                         dynamicReducers, dynamicActions, selectors,
                         persistedKeys, pollingSubscriptions, effectConfigs,
                         storeState, reducers, timers, inFlight,
                         pendingRemove, localStorage, sessionStorage, eff,
                         created, snapshot>>]_vars

\* recallEffect was called on a key whose registration had been removed
C26_RecalledAfterRemoveEffect ==
  \E k \in EffectKeys :
    /\ last.op = "recallEffect" /\ last.key = k /\ last.out = "ok"
    /\ isInitialized
    /\ effectConfigs[k] = NoConfig
    /\ eff[k].kind = "fn" /\ eff[k].binds

C28_DisableStopsMirroring ==
  [][\A k \in PersistenceKeys :
       /\ (/\ last'.op = "disablePersistence" /\ last'.key = k
           /\ persistedKeys[k] # NoType)
          => /\ (IF persistedKeys[k] = "Local"
                   THEN localStorage'.item[k]
                   ELSE sessionStorage'.item[k]) = NoItem
             /\ persistedKeys'[k] = NoType
       /\ (/\ last'.op = "set" /\ last'.key = k
           /\ persistedKeys[k] = NoType)
          => /\ last'.writes[k] = 0
             /\ localStorage' = localStorage
             /\ sessionStorage' = sessionStorage
       /\ (/\ last'.op = "disablePersistence" /\ last'.key = k
           /\ persistedKeys[k] = NoType)
          => UNCHANGED <<isInitialized, hasStore, staticReducerKeys,
                         dynamicReducers, dynamicActions, selectors,
                         persistedKeys, pollingSubscriptions, effectConfigs,
                         storeState, reducers, timers, inFlight,
                         pendingRemove, localStorage, sessionStorage, eff,
                         created, snapshot>>]_vars

\* disablePersistence took a bound key's item away while the key held a value
C28_BoundKeyDisabled ==
  \E k \in PersistenceKeys :
    /\ last.op = "disablePersistence" /\ last.key = k /\ last.out = "ok"
    /\ storeState[k] \in DataValues
    /\ persistedKeys[k] = NoType
    /\ localStorage.item[k] = NoItem /\ sessionStorage.item[k] = NoItem

\* C29: once the store is initialized, the metadata record of each storage
\* lists exactly the keys bound to that storage, whatever calls of
\* enablePersistence, disablePersistence, set and remove were made; after
\* disablePersistence(k) neither record lists k; and initialization binds
\* only keys that a record lists or that were bound already.
C29_MetadataListsBoundKeys ==
  /\ [](isInitialized
        => /\ localStorage.meta =
                {k \in Keys : persistedKeys[k] = "Local"}
           /\ sessionStorage.meta =
                {k \in Keys : persistedKeys[k] = "Session"})
  /\ [][\A k \in PersistenceKeys :
          /\ (/\ last'.op = "disablePersistence" /\ last'.key = k
              /\ isInitialized)
             => k \notin (localStorage'.meta \cup sessionStorage'.meta)
          /\ (last'.op = "initializeStore" /\ persistedKeys'[k] # NoType)
             => \/ k \in (localStorage.meta \cup sessionStorage.meta)
                \/ persistedKeys[k] # NoType]_vars

\* disablePersistence unbound one key while another stayed bound and listed
C29_OneOfTwoUnbound ==
  \E k, j \in PersistenceKeys :
    /\ k # j
    /\ isInitialized
    /\ last.op = "disablePersistence" /\ last.key = k /\ last.out = "ok"
    /\ persistedKeys[k] = NoType
    /\ persistedKeys[j] = "Local"
    /\ localStorage.meta = {j}

\* C30: when set(k, v) tries to write a bound key to a storage that has
\* reached its quota, the failure is caught and k is unbound, so that no
\* later set(k, v) tries to write.
C30_QuotaFailureUnbinds ==
  [][\A k \in EffectKeys :
       (/\ last'.op = "set" /\ last'.key = k
        /\ last'.writes[k] > 0
        /\ (IF persistedKeys[k] = "Local"
              THEN localStorage.full ELSE sessionStorage.full))
       => /\ last'.out = "ok"
          /\ persistedKeys'[k] = NoType]_vars

\* C31: when initialization finds a listed key whose stored text does not
\* parse, it completes all the same, leaves that key out of the store and
\* deletes its item, and restores every other listed key whose text parses.
C31_CorruptItemDiscarded ==
  [][last'.op = "initializeStore"
     => /\ isInitialized'
        /\ \A k \in DynKeys :
             LET type == IF k \in sessionStorage.meta THEN "Session"
                         ELSE IF k \in localStorage.meta THEN "Local"
                         ELSE NoType
                 text == GetItem(S, type, k)
             IN  /\ (type # NoType /\ text = CorruptText)
                    => /\ storeState'[k] = Undefined
                       /\ (IF type = "Local" THEN localStorage'.item[k]
                            ELSE sessionStorage'.item[k]) = NoItem
                 /\ (type # NoType /\ text # NoItem /\ Parse(text).ok)
                    => storeState'[k] = Parse(text).value]_vars

\* C32: a set that creates a slice warns when it takes the number of
\* generated slices from the threshold to one more, and does not warn when
\* the number was already past the threshold; with or without the warning
\* the slice is created.
C32_OneWarningPerCrossing ==
  [][\A k \in DynKeys :
       (/\ last'.op = "set" /\ last'.key = k /\ last'.out = "ok"
        /\ k \notin dynamicReducers /\ k \in dynamicReducers')
       => /\ k \in reducers'
          /\ last'.warned =
               IF Cardinality(dynamicReducers) = DYNAMIC_KEY_WARN_THRESHOLD
                 THEN 1 ELSE 0]_vars

\* C33: before initializeStore every public operation throws to its caller
\* and changes neither the registry, the effects, the bindings nor the
\* storages.
C33_UninitializedCallsFail ==
  [][(/\ ~isInitialized
      /\ last'.op \in {"set", "get", "remove", "enablePersistence",
                       "disablePersistence", "addEffect", "recallEffect",
                       "removeEffect"})
     => /\ last'.out = "throws"
        /\ UNCHANGED <<isInitialized, hasStore, staticReducerKeys,
                       dynamicReducers, dynamicActions, selectors,
                       persistedKeys, pollingSubscriptions, effectConfigs,
                       storeState, reducers, timers, inFlight,
                       pendingRemove, localStorage, sessionStorage>>]_vars

\* C34: whenever addEffect, a timer tick or recallEffect makes executeEffect
\* call the producer of a registration that carries a context, the producer
\* runs with that context as its receiver, whichever receiver the same
\* callable runs with under another registration.
C34_ContextWins ==
  [][\A k \in DynKeys :
       (/\ last'.key = k
        /\ last'.op \in {"addEffect", "tick", "recallEffect"}
        /\ last'.out = "ok"
        /\ eff'[k].calls > (IF last'.op = "addEffect" THEN 0 ELSE eff[k].calls)
        /\ effectConfigs'[k] # NoConfig
        /\ effectConfigs'[k].context)
       => last'.receiver = "context"]_vars

\* the decorated callable runs with the context of the registration for k
\* although its registration for setk has run it with the injector's instance
C34_Witness ==
  /\ last.op \in {"tick", "recallEffect"} /\ last.key = "k"
  /\ last.receiver = "context"
  /\ effectConfigs["k"] # NoConfig
  /\ effectConfigs["k"].originalServiceFn = "autoBoundFn"
  /\ effectConfigs["k"].context
  /\ effectConfigs["setk"] # NoConfig
  /\ effectConfigs["setk"].originalServiceFn = "autoBoundFn"
  /\ ~effectConfigs["setk"].context
  /\ eff["setk"].calls > 0

\* C35: the set that creates the slice of a runtime key calls addReducer for
\* the key once, and no set of any key calls addReducer for it again while
\* the slice lives, that is until a remove of the key has destroyed it.
C35_OneAddReducerPerLifetime ==
  [][\A k \in DynKeys :
       /\ (k \notin dynamicReducers /\ k \in dynamicReducers')
            => last'.added[k] = 1
       /\ (k \in dynamicReducers /\ k \in reducers /\ last'.op = "set")
            => last'.added[k] = 0]_vars

\* C36: a set of a runtime key whose slice an earlier set created and a
\* completed remove destroyed registers a handler for the key again and
\* leaves the store holding the value it was given.
C36_SliceRecreated ==
  [][\A k \in DynKeys :
       (/\ last'.op = "set" /\ last'.key = k /\ last'.out = "ok"
        /\ k \in created
        /\ k \notin dynamicReducers
        /\ pendingRemove[k] = 0)
       => /\ k \in reducers'
          /\ storeState'[k] = last'.arg]_vars

\* C37: in every state, for every runtime key, the generated action of the
\* key exists exactly when its generated reducer exists and exactly when a
\* handler for the key is registered with the host store; and no key the
\* host declared has a generated reducer.
C37_BookkeepingConsistent ==
  /\ \A k \in DynKeys :
       /\ (ActionKey(k) \in dynamicActions) <=> (k \in dynamicReducers)
       /\ (k \in dynamicReducers) <=> (k \in reducers)
  /\ staticReducerKeys \cap dynamicReducers = {}

\* C38: in every state, a key with a live polling timer has a registration in
\* effectConfigs, whether addEffect or addHttpEffect started the timer.
C38_TimerHasRegistration ==
  \A k \in EffectKeys :
    (timers[k]["fn"] + timers[k]["http"] > 0) => effectConfigs[k] # NoConfig

\* C39: in every state of an initialized service, a storage holds an item for
\* a key only if the key is bound to that storage.
C39_NoOrphanedItem ==
  isInitialized =>
    \A k \in PersistenceKeys :
      /\ localStorage.item[k] # NoItem => persistedKeys[k] = "Local"
      /\ sessionStorage.item[k] # NoItem => persistedKeys[k] = "Session"

\* C40: when initializeStore has restored the slice of a runtime key from the
\* storage whose metadata record lists the key, a set of the key that follows
\* with another value writes that value to the same storage, and the key
\* stays bound to it.
C40_RestoredKeyStaysBound ==
  [][\A k \in DynKeys :
       LET type == IF k \in sessionStorage.meta THEN "Session"
                   ELSE IF k \in localStorage.meta THEN "Local"
                   ELSE NoType
           text == GetItem(S, type, k)
       IN  (/\ last.op = "initializeStore"
            /\ type # NoType
            /\ text # NoItem /\ Parse(text).ok
            /\ storeState[k] = Parse(text).value
            /\ last'.op = "set" /\ last'.key = k /\ last'.out = "ok"
            /\ last'.arg # storeState[k])
           => /\ persistedKeys'[k] = type
              /\ last'.writes[k] = 1
              /\ (IF type = "Local" THEN localStorage'.item[k]
                                    ELSE sessionStorage'.item[k])
                   = Stringify(last'.arg)
              /\ storeState'[k] = last'.arg]_vars

\* after a restart the slice of k, bound to localStorage before it, has been
\* restored, and a set has replaced its value in the store and in localStorage
C40_RestoredThenSet ==
  /\ isInitialized
  /\ snapshot["k"] # Undefined
  /\ last.op = "set" /\ last.key = "k" /\ last.out = "ok"
  /\ last.arg # snapshot["k"]
  /\ persistedKeys["k"] = "Local"
  /\ last.writes["k"] = 1
  /\ localStorage.item["k"] = Stringify(last.arg)
  /\ storeState["k"] = last.arg

=============================================================================
